---- MODULE Spec2Model ----
(***************************************************************************)
(* Model of the activation pipeline of contentful-marketo-ai-bridge:       *)
(*   backend/main.py                  the /activate handler, rate limiter  *)
(*   backend/schemas/article.py       ArticleIn validation                 *)
(*   backend/services/*.py            content source, enrichment, platform *)
(* Python strings are TLA+ strings; an Optional[str] is a record           *)
(* [isNone, s].                                                            *)
(***************************************************************************)
EXTENDS Integers, Sequences, FiniteSets, TLC

(***************************************************************************)
(* Strings and optional values                                             *)
(***************************************************************************)

\* Python None for an Optional[str] field
None == [isNone |-> TRUE, s |-> ""]

\* a present str value
Str(s) == [isNone |-> FALSE, s |-> s]

\* Python truthiness of an Optional[str]: None and "" are falsy
Truthy(o) == (~o.isNone) /\ Len(o.s) > 0

\* str.startswith(prefix)
StartsWith(s, prefix) ==
    /\ Len(s) >= Len(prefix)
    /\ SubSeq(s, 1, Len(prefix)) = prefix

RECURSIVE Chars(_)
\* a string of n characters
Chars(n) ==
    IF n = 0 THEN ""
    ELSE LET half == Chars(n \div 2)
         IN IF n % 2 = 0 THEN half \o half ELSE half \o half \o "x"

\* the set of elements of a list
Range(seq) == {seq[i] : i \in 1..Len(seq)}

(***************************************************************************)
(* schemas/article.py : ArticleIn                                          *)
(***************************************************************************)

TITLE_MAX_LENGTH == 70
BODY_MIN_LENGTH == 100
SUMMARY_MAX_LENGTH == 160
CAMPAIGN_TAGS_MIN_LENGTH == 1
CTA_TEXT_MAX_LENGTH == 80

\* the controlled vocabulary of validate_controlled_vocabulary
allowed_tags ==
    { "product-launch", "thought-leadership", "case-study", "webinar", "ebook",
      "release-notes", "tutorial", "whitepaper", "demo", "blog-post",
      "developer", "marketer", "enterprise", "startup",
      "technical-decision-maker", "content-creator", "product-manager",
      "executive",
      "awareness", "consideration", "decision", "retention", "advocacy",
      "demand-gen", "brand-awareness", "product-adoption", "customer-success",
      "lead-nurture", "competitive-intelligence" }

\* The fields of ArticleIn in declaration order.  Pydantic validates the
\* fields in this order, and a field validator's info.data holds only the
\* fields validated (successfully) before the one being validated.
FieldOrder ==
    << "title", "body", "summary", "campaign_tags", "alt_text", "has_images",
       "cta_text", "cta_url", "content_type" >>

\* position of a field in the declaration order
FieldIndex(f) == CHOOSE i \in 1..Len(FieldOrder) : FieldOrder[i] = f

\* Field(..., max_length=70)
TitleOk(kw) == Len(kw.title) <= TITLE_MAX_LENGTH

\* Field(..., min_length=100)
BodyOk(kw) == Len(kw.body) >= BODY_MIN_LENGTH

\* Field(None, max_length=160)
SummaryOk(kw) == kw.summary.isNone \/ Len(kw.summary.s) <= SUMMARY_MAX_LENGTH

\* invalid_tags = set(v) - allowed_tags
InvalidTags(v) == Range(v) \ allowed_tags

\* validate_controlled_vocabulary without the min_length=1 of the field
validate_controlled_vocabulary_NoMinLength(v) == InvalidTags(v) = {}

\* Field(..., min_length=1) followed by the field validator, which raises
\* when invalid_tags is non-empty
validate_controlled_vocabulary(v) ==
    /\ Len(v) >= CAMPAIGN_TAGS_MIN_LENGTH
    /\ InvalidTags(v) = {}

CampaignTagsOk(kw) == validate_controlled_vocabulary(kw.campaign_tags)

\* info.data while alt_text is validated: the names of the fields declared
\* before alt_text that validated
InfoDataAtAltText(kw) ==
    { f \in {"title", "body", "summary", "campaign_tags", "has_images"} :
        /\ FieldIndex(f) < FieldIndex("alt_text")
        /\ CASE f = "title" -> TitleOk(kw)
             [] f = "body" -> BodyOk(kw)
             [] f = "summary" -> SummaryOk(kw)
             [] f = "campaign_tags" -> CampaignTagsOk(kw)
             [] OTHER -> TRUE }

\* has_images = info.data.get("has_images", False)
\* if has_images and not v: raise ValueError
validate_alt_text_when_images_present(kw) ==
    LET has_images == IF "has_images" \in InfoDataAtAltText(kw)
                      THEN kw.has_images ELSE FALSE
    IN ~(has_images /\ ~Truthy(kw.alt_text))

\* Field(None, max_length=80)
CtaTextOk(kw) == kw.cta_text.isNone \/ Len(kw.cta_text.s) <= CTA_TEXT_MAX_LENGTH

\* if v and not v.startswith(("http://", "https://")): raise ValueError
validate_cta_url_format(v) ==
    ~(Truthy(v) /\ ~(StartsWith(v.s, "http://") \/ StartsWith(v.s, "https://")))

\* ArticleIn(**kw): the names of the fields that fail; the model is
\* constructed iff the set is empty
ArticleInErrors(kw) ==
    {f \in {"title"} : ~TitleOk(kw)}
    \cup {f \in {"body"} : ~BodyOk(kw)}
    \cup {f \in {"summary"} : ~SummaryOk(kw)}
    \cup {f \in {"campaign_tags"} : ~CampaignTagsOk(kw)}
    \cup {f \in {"alt_text"} : ~validate_alt_text_when_images_present(kw)}
    \cup {f \in {"cta_text"} : ~CtaTextOk(kw)}
    \cup {f \in {"cta_url"} : ~validate_cta_url_format(kw.cta_url)}

\* ArticleIn(**kw) constructs without raising
ArticleInValid(kw) == ArticleInErrors(kw) = {}

(***************************************************************************)
(* Inputs of the validation specification                                  *)
(***************************************************************************)

\* longest campaign_tags list drawn
MaxTags == 2

\* tokens drawn for campaign_tags: inside and outside the vocabulary
TagUniverse == {"webinar", "marketer", "invalid-tag", "Webinar"}

RECURSIVE SeqsUpTo(_, _)
\* all lists over S of length at most n
SeqsUpTo(S, n) ==
    IF n = 0 THEN {<< >>}
    ELSE LET shorter == SeqsUpTo(S, n - 1)
         IN shorter \cup {Append(q, x) : q \in {p \in shorter : Len(p) = n - 1}, x \in S}

TitleInputs == {Chars(TITLE_MAX_LENGTH), Chars(TITLE_MAX_LENGTH + 1)}
BodyInputs == {Chars(BODY_MIN_LENGTH - 1), Chars(BODY_MIN_LENGTH)}
SummaryInputs == {None, Str(Chars(SUMMARY_MAX_LENGTH)), Str(Chars(SUMMARY_MAX_LENGTH + 1))}
AltTextInputs == {None, Str(""), Str("Marketing automation dashboard screenshot")}
CtaTextInputs == {None, Str(Chars(CTA_TEXT_MAX_LENGTH + 1))}
CtaUrlInputs ==
    { None, Str(""), Str("https://example.com/learn-more"), Str("http://a"),
      Str("invalid-url-format"), Str("ftp://example.com"), Str("http:/"),
      Str("HTTPS://EXAMPLE.COM"), Str(" https://example.com") }

\* keyword arguments of ArticleIn(...) as main.py passes them
ArticleKwargs ==
    [ title : TitleInputs, body : BodyInputs, summary : SummaryInputs,
      campaign_tags : SeqsUpTo(TagUniverse, MaxTags),
      alt_text : AltTextInputs, has_images : BOOLEAN,
      cta_text : CtaTextInputs, cta_url : CtaUrlInputs ]

(***************************************************************************)
(* main.py : rate limiter                                                  *)
(***************************************************************************)

\* int(os.getenv("RATE_LIMIT_RPM", "10")): the configured maximum per window
_RATE_LIMIT_MAX_REQUESTS == 1

_RATE_LIMIT_WINDOW_SEC == 60

\* seconds by which one step of the clock advances time.time()
TickSec == 30

\* last value of the clock
MaxTime == 90

\* request.client.host values
Clients == {"10.0.0.1", "10.0.0.2"}

\* history = [t for t in history if t >= window_start]
PruneHistory(history, t) ==
    SelectSeq(history, LAMBDA x : x >= t - _RATE_LIMIT_WINDOW_SEC)

\* OverLimit with the comparison off by one
OverLimit_OffByOne(history) == Len(history) > _RATE_LIMIT_MAX_REQUESTS

\* len(history) >= _RATE_LIMIT_MAX_REQUESTS
OverLimit(history) == Len(history) >= _RATE_LIMIT_MAX_REQUESTS

\* _is_rate_limited storing a history read before another request's append
_is_rate_limited_LostUpdate(history, t) ==
    LET pruned == PruneHistory(history, t)
    IN [limited |-> OverLimit(pruned), history |-> pruned]

\* _is_rate_limited recording the timestamp of a rejected request too
_is_rate_limited_CountsRejected(history, t) ==
    LET pruned == PruneHistory(history, t)
    IN [limited |-> OverLimit(pruned), history |-> Append(pruned, t)]

\* _is_rate_limited(client_ip) at time t: the value returned and the history
\* stored back into _client_requests[client_ip]
_is_rate_limited(history, t) ==
    LET pruned == PruneHistory(history, t)
    IN IF OverLimit(pruned)
       THEN [limited |-> TRUE, history |-> pruned]
       ELSE [limited |-> FALSE, history |-> Append(pruned, t)]

(***************************************************************************)
(* services/contentful.py, services/live_contentful.py : content source    *)
(***************************************************************************)

\* payload.entry_id values
EntryIds == {"e1", "e2"}

\* ContentfulService.get_article: the offline stub record, as the keyword
\* arguments main.py builds from raw_article["fields"]
MockArticle ==
    [ title |-> "Sample Marketing Article",
      body |-> "This is a sample article body with sufficient length to meet validation requirements. Marketing automation is transforming how businesses engage with prospects and customers across the entire lifecycle.",
      summary |-> Str("Brief overview of marketing automation benefits"),
      campaign_tags |-> << "thought-leadership", "marketer", "awareness" >>,
      alt_text |-> Str("Marketing automation dashboard screenshot"),
      has_images |-> TRUE,
      cta_text |-> Str("Learn More"),
      cta_url |-> Str("https://example.com/learn-more") ]

\* entries of the live CMS, after _transform_entry and main.py's mapping
CmsArticles ==
    { [MockArticle EXCEPT !.has_images = FALSE, !.alt_text = None],
      [MockArticle EXCEPT !.alt_text = None],
      [MockArticle EXCEPT !.campaign_tags = << "marketer", "invalid-tag" >>,
                          !.has_images = FALSE, !.alt_text = None] }

\* LiveContentfulService.get_article: in live mode the transformed entry, and
\* the stub when the live read fails or the service is not in live mode.
\* "raises" is the collaborator failing as tests/test_main.py injects it.
GetArticleOutcomes ==
    { [raises |-> FALSE, article |-> x] : x \in CmsArticles \cup {MockArticle} }
    \cup { [raises |-> TRUE, article |-> MockArticle] }

CONTENTFUL_ERROR == "Contentful API error"

(***************************************************************************)
(* services/ai_service.py : enrichment                                     *)
(***************************************************************************)

\* tone_analysis is None
NoTone == [present |-> FALSE, professional |-> 0, confident |-> 0, action_oriented |-> 0]

\* tone scores in hundredths
Tone(p, c, a) == [present |-> TRUE, professional |-> p, confident |-> c, action_oriented |-> a]

\* brand_voice not computed
NoBrandVoice ==
    [present |-> FALSE, professionalism |-> "", confidence |-> "",
     action_orientation |-> "", overall |-> ""]

\* enrichment_data = None
NoEnrichment ==
    [ present |-> FALSE, provider |-> "", fallback |-> FALSE, error |-> None,
      tone_analysis |-> NoTone, generated_alt_text |-> None,
      brand_voice |-> NoBrandVoice ]

\* OpenAIProvider.enrich_content / LocalModelProvider.enrich_content, as
\* enrichment_result.model_dump(): model_ok is whether the model calls and
\* the construction of the payload in the try block went through
enrich_content(provider, model_ok) ==
    IF model_ok
    THEN [ NoEnrichment EXCEPT
             !.present = TRUE,
             !.provider = IF provider = "local" THEN "ollama" ELSE "",
             !.tone_analysis = IF provider = "local" THEN Tone(80, 75, 70)
                               ELSE Tone(90, 80, 85) ]
    ELSE [ NoEnrichment EXCEPT
             !.present = TRUE,
             !.provider = IF provider = "local" THEN "ollama" ELSE "",
             !.fallback = TRUE,
             !.error = IF provider = "local" THEN Str("Ollama error: model call failed")
                       ELSE Str("OpenAI API error: model call failed") ]

\* what ai_service.enrich_content does in one call: "raises" is the service
\* failing as tests/test_main.py injects it
EnrichOutcomes == {"genuine", "fallback", "raises"}

AI_ERROR == "OpenAI API error"

\* values generate_alt_text_for_images returns: None when no image URL is
\* found, the vision provider's text, or a placeholder
AltTextOutcomes == {None, Str("A dashboard showing campaign metrics"), Str("Image description unavailable")}

\* what vision_service.generate_alt_text does for the first image: returns
\* a description, returns its own placeholder, or raises
VisionOutcomes == {"described", "placeholder", "raises"}

VISION_ERROR == "Vision processing failed"

\* generate_alt_text_for_images with the vision call outside any try
generate_alt_text_for_images_Uncaught(article, urls_found, vision) ==
    IF ~article.has_images THEN [raised |-> FALSE, value |-> None]
    ELSE IF ~urls_found THEN [raised |-> FALSE, value |-> None]
    ELSE IF vision = "described"
    THEN [raised |-> FALSE, value |-> Str("A dashboard showing campaign metrics")]
    ELSE IF vision = "placeholder"
    THEN [raised |-> FALSE, value |-> Str("Image description unavailable")]
    ELSE [raised |-> TRUE, value |-> None]

\* OpenAIProvider / LocalModelProvider.generate_alt_text_for_images on
\* article.model_dump(): None without images or when no image URL is found
\* in the body (urls_found), else the vision service's text for the first
\* URL, the placeholder when that call raises
generate_alt_text_for_images(article, urls_found, vision) ==
    IF ~article.has_images THEN [raised |-> FALSE, value |-> None]
    ELSE IF ~urls_found THEN [raised |-> FALSE, value |-> None]
    ELSE IF vision = "described"
    THEN [raised |-> FALSE, value |-> Str("A dashboard showing campaign metrics")]
    ELSE [raised |-> FALSE, value |-> Str("Image description unavailable")]

\* advisory with strict thresholds
advisory_Strict(score) ==
    IF score > 80 THEN "pass"
    ELSE IF score > 60 THEN "advisory"
    ELSE "attention"

\* def advisory(score): thresholds on a score in hundredths
advisory(score) ==
    IF score >= 80 THEN "pass"
    ELSE IF score >= 60 THEN "advisory"
    ELSE "attention"

\* a key absent from tone_analysis
Missing == -1

\* float(tone.get(key, 0))
ScoreOrZero(score) == IF score = Missing THEN 0 ELSE score

\* the triples of scores, among those the model draws, for which the
\* double (professionalism + confident + action_oriented) / 3.0 is
\* 0.7999999999999999 although the decimal scores sum to 2.40
MeanRoundedBelow ==
    { << 60, 80, 100 >>, << 60, 90, 90 >>, << 70, 70, 100 >>, << 70, 80, 90 >>,
      << 70, 100, 70 >>, << 80, 60, 100 >>, << 80, 70, 90 >>, << 80, 100, 60 >>,
      << 90, 60, 90 >>, << 90, 90, 60 >>, << 100, 70, 70 >>, << 100, 80, 60 >> }

\* advisory((professionalism + confident + action_oriented) / 3.0): the
\* mean of three scores reaches a threshold T iff their sum reaches 3 * T,
\* but for the rounding of the double division
OverallAdvisory(professionalism, confident, action_oriented) ==
    LET total == professionalism + confident + action_oriented
    IN IF total >= 3 * 80
          /\ << professionalism, confident, action_oriented >> \notin MeanRoundedBelow
       THEN "pass"
       ELSE IF total >= 3 * 60 THEN "advisory"
       ELSE "attention"

\* enrichment_data["brand_voice"] = {...}
BrandVoice(tone) ==
    LET professionalism == IF tone.present THEN ScoreOrZero(tone.professional) ELSE 0
        confident == IF tone.present THEN ScoreOrZero(tone.confident) ELSE 0
        action_oriented == IF tone.present THEN ScoreOrZero(tone.action_oriented) ELSE 0
    IN [ present |-> TRUE,
         professionalism |-> advisory(professionalism),
         confidence |-> advisory(confident),
         action_orientation |-> advisory(action_oriented),
         overall |-> OverallAdvisory(professionalism, confident, action_oriented) ]

\* tone scores drawn in the brand-voice specification, in hundredths
ToneScoreInputs == {Missing, 0, 59, 60, 70, 79, 80, 90, 100}

(***************************************************************************)
(* services/marketing_platform.py : MarketingPlatformFactory               *)
(***************************************************************************)

\* values of MARKETING_PLATFORM (None: not set)
PlatformEnv ==
    { None, Str("marketo"), Str("hubspot"), Str("mock"), Str("HubSpot"),
      Str("MARKETO"), Str("sendgrid"), Str("") }

\* values of HUBSPOT_ACCESS_TOKEN
TokenEnv == {None, Str(""), Str("pat-na1-token")}

\* str.lower() on the platform names drawn
Lower(s) ==
    IF s = "HubSpot" THEN "hubspot"
    ELSE IF s = "MARKETO" THEN "marketo"
    ELSE s

\* os.getenv("MARKETING_PLATFORM", "mock").lower()
ConfiguredPlatform(env) == IF env.isNone THEN "mock" ELSE Lower(env.s)

\* the keys of platform_info
KnownPlatforms == {"marketo", "hubspot", "mock"}

\* _create_hubspot_service without its try/except
_create_hubspot_service_Unguarded(token) ==
    [raised |-> ~Truthy(token), service |-> "hubspot"]

\* _create_hubspot_service: HubSpotService(...) raises ValueError without
\* an access token, and the mock service is returned instead
_create_hubspot_service(token) ==
    [raised |-> FALSE, service |-> IF Truthy(token) THEN "hubspot" ELSE "mock"]

\* _create_marketo_service: MarketoService(...) substitutes mock
\* credentials for missing ones and does not raise
_create_marketo_service(token) == [raised |-> FALSE, service |-> "marketo"]

\* no adapter created
NoAdapter == [raised |-> FALSE, service |-> "", is_async |-> FALSE]

\* MarketingPlatformFactory.create_service: AsyncMarketingAdapter(service)
create_service(env, token) ==
    LET platform == ConfiguredPlatform(env)
        made == IF platform = "marketo" THEN _create_marketo_service(token)
                ELSE IF platform = "hubspot" THEN _create_hubspot_service(token)
                ELSE [raised |-> FALSE, service |-> "mock"]
    IN [ raised |-> made.raised,
         service |-> IF made.raised THEN "" ELSE made.service,
         is_async |-> ~made.raised /\ made.service = "hubspot" ]

\* platform_info[...]["name"]
PlatformName(platform) ==
    IF platform = "marketo" THEN "Marketo"
    ELSE IF platform = "hubspot" THEN "HubSpot"
    ELSE "Mock Service"

\* GET /platform not answered
NoPlatformInfo ==
    [present |-> FALSE, current_platform |-> "", platform_details |-> "",
     available_platforms |-> {}]

\* MarketingPlatformFactory.get_platform_info
get_platform_info(env) ==
    LET platform == ConfiguredPlatform(env)
    IN [ present |-> TRUE,
         current_platform |-> platform,
         platform_details |-> IF platform \in KnownPlatforms
                              THEN PlatformName(platform)
                              ELSE PlatformName("mock"),
         available_platforms |-> KnownPlatforms ]

\* what add_to_list of a backend can give: the mock and the Marketo
\* service always succeed, HubSpot returns an envelope either way
BackendOutcomes(service) ==
    IF service = "hubspot" THEN {"success", "failure_envelope"} ELSE {"success"}

(***************************************************************************)
(* services/ai_service.py : the providers' enrich_content                  *)
(***************************************************************************)

\* AIEnrichmentPayload.suggested_meta_description: max_length
META_DESCRIPTION_MAX_LENGTH == 160
\* AIEnrichmentPayload.keywords: min_length, max_length
KEYWORDS_MIN_LENGTH == 1
KEYWORDS_MAX_LENGTH == 7

\* the slices the providers take: summary[:160], keywords[:7]
SUMMARY_SLICE == 160
KEYWORDS_SLICE == 7
\* LocalModelProvider keeps keywords with len(kw) > 2
SHORT_KEYWORD_LENGTH == 2

\* seq[:n]
Take(seq, n) == SubSeq(seq, 1, IF Len(seq) < n THEN Len(seq) ELSE n)

\* the text a model returned for the summary: an optional label and a
\* colon before the description
SummaryText(raw) ==
    IF raw.label = "" THEN raw.text ELSE raw.label \o ": " \o raw.text

\* LocalModelProvider: if ":" in summary_text, keep what follows the colon
CleanedSummary(raw) == raw.text

\* the constraints AIEnrichmentPayload(...) enforces
SchemaValid(p) ==
    /\ Len(p.suggested_meta_description) <= META_DESCRIPTION_MAX_LENGTH
    /\ Len(p.keywords) >= KEYWORDS_MIN_LENGTH
    /\ Len(p.keywords) <= KEYWORDS_MAX_LENGTH

\* AIEnrichmentPayload(...) as a provider fills it
Payload(description, keywords, tone, provider, fallback, error) ==
    [ suggested_meta_description |-> description, keywords |-> keywords,
      tone_analysis |-> tone, provider |-> provider, fallback |-> fallback,
      error |-> error ]

\* what enrich_content gives its caller: a payload, or an exception
Returned(p) == [raised |-> FALSE, payload |-> p]
Raised(msg) ==
    [raised |-> TRUE,
     payload |-> Payload(msg, << >>, NoTone, "", FALSE, None)]

\* OpenAIProvider.enrich_content, except Exception as e
OpenAIFallback(title, msg) ==
    Payload(Take("Learn about " \o title
                 \o " and discover actionable insights for your marketing strategy.",
                 SUMMARY_SLICE),
            << "marketing", "automation", "strategy" >>, NoTone, "", TRUE,
            Str("OpenAI API error: " \o msg))

\* LocalModelProvider.enrich_content, except Exception as e
LocalFallback(title, msg) ==
    Payload(Take("Learn about " \o title
                 \o " with our comprehensive guide and expert insights.",
                 SUMMARY_SLICE),
            << "local", "model", "fallback" >>, NoTone, "ollama", TRUE,
            Str("Ollama error: " \o msg))

\* OpenAIProvider.enrich_content without its try/except
OpenAIProvider_enrich_content_Unguarded(title, model) ==
    IF model.raises THEN Raised(model.message)
    ELSE Returned(Payload(Take(SummaryText(model.summary), SUMMARY_SLICE),
                          Take(model.keywords, KEYWORDS_SLICE),
                          Tone(90, 80, 85), "", FALSE, None))

\* OpenAIProvider.enrich_content: model is what the two completions calls
\* did; a payload the schema rejects raises inside the try block
OpenAIProvider_enrich_content(title, model) ==
    IF model.raises THEN Returned(OpenAIFallback(title, model.message))
    ELSE LET p == Payload(Take(SummaryText(model.summary), SUMMARY_SLICE),
                          Take(model.keywords, KEYWORDS_SLICE),
                          Tone(90, 80, 85), "", FALSE, None)
         IN IF SchemaValid(p) THEN Returned(p)
            ELSE Returned(OpenAIFallback(title, "validation error"))

\* [kw for kw in keywords if kw and len(kw) > 2]
RECURSIVE LongKeywords(_)
LongKeywords(keywords) ==
    IF keywords = << >> THEN << >>
    ELSE IF Len(Head(keywords)) > SHORT_KEYWORD_LENGTH
         THEN << Head(keywords) >> \o LongKeywords(Tail(keywords))
         ELSE LongKeywords(Tail(keywords))

\* LocalModelProvider.enrich_content
LocalModelProvider_enrich_content(title, model) ==
    IF model.raises THEN Returned(LocalFallback(title, model.message))
    ELSE LET keywords == Take(LongKeywords(model.keywords), KEYWORDS_SLICE)
             p == Payload(Take(CleanedSummary(model.summary), SUMMARY_SLICE),
                          IF keywords # << >> THEN keywords
                          ELSE << "marketing", "content", "automation" >>,
                          Tone(80, 75, 70), "ollama", FALSE, None)
         IN IF SchemaValid(p) THEN Returned(p)
            ELSE Returned(LocalFallback(title, "validation error"))

\* AIService.enrich_content: delegates to the configured provider
AIService_enrich_content(provider, title, model) ==
    IF provider = "local" THEN LocalModelProvider_enrich_content(title, model)
    ELSE OpenAIProvider_enrich_content(title, model)

\* titles of the articles enriched (title.lower() leaves them as they are)
EnrichTitles == {"test article", Chars(TITLE_MAX_LENGTH)}

\* lengths of the description a model returns
SummaryLengths ==
    {0, SUMMARY_SLICE - 1, SUMMARY_SLICE, SUMMARY_SLICE + 1, SUMMARY_SLICE + 40}

\* keywords_text.split(","), each piece stripped
KeywordLists ==
    { << "" >>, << "seo", "marketing" >>, << "ai", "b2b", "seo", "crm" >>,
      << "seo", "crm", "email", "leads", "funnel", "content", "brand", "growth" >> }

\* what the underlying model calls do
ModelOutcomes ==
    { [raises |-> TRUE, message |-> msg, summary |-> [label |-> "", text |-> ""],
       keywords |-> << >>] : msg \in {"API Error", ""} }
    \cup
    { [raises |-> FALSE, message |-> "",
       summary |-> [label |-> label, text |-> Chars(n)], keywords |-> kws] :
         label \in {"", "Meta description"}, n \in SummaryLengths,
         kws \in KeywordLists }

(***************************************************************************)
(* services/marketing_platform.py : platform dispatch                      *)
(***************************************************************************)

\* marketo_response = None
NoResponse == [present |-> FALSE, success |-> FALSE]

\* what awaiting marketing_service.add_to_list yields: a success envelope,
\* a failure envelope (HubSpotService returns success=False), or an
\* exception as tests/test_main.py injects it
AddToListOutcomes == {"success", "failure_envelope", "raises"}

MARKETO_ERROR == "Marketo API error"

\* the envelope add_to_list returns
add_to_list(outcome) == [present |-> TRUE, success |-> (outcome = "success")]

(***************************************************************************)
(* schemas/activation.py, main.py : results and the audit log              *)
(***************************************************************************)

\* no ActivationResult was built
NoResult ==
    [ activation_id |-> 0, entry_id |-> "", status |-> "none",
      enrichment_data |-> NoEnrichment, marketo_response |-> NoResponse,
      errors |-> << >> ]

\* ActivationResult(status="success", ..., errors=errors if errors else None)
\* (None and the empty list are both the empty sequence)
SuccessResult(activation_id, entry_id, enrichment_data, marketing_response, errors) ==
    [ activation_id |-> activation_id, entry_id |-> entry_id, status |-> "success",
      enrichment_data |-> enrichment_data, marketo_response |-> marketing_response,
      errors |-> errors ]

\* ProcessingError with the append left out
ProcessingError_NotRecorded(errors, msg) == errors

\* except Exception as e: errors.append(f"Processing error: {str(e)}")
ProcessingError(errors, msg) == Append(errors, "Processing error: " \o msg)

\* ActivationResult(status="error", enrichment_data=None, marketo_response=None, errors=errors)
ErrorResult(activation_id, entry_id, errors) ==
    [ activation_id |-> activation_id, entry_id |-> entry_id, status |-> "error",
      enrichment_data |-> NoEnrichment, marketo_response |-> NoResponse,
      errors |-> errors ]

\* append_activation_log opening the file for writing instead of appending
append_activation_log_Rewrites(file, result, ok) ==
    IF ok THEN << result >> ELSE file

\* append_activation_log(result): one line appended, or nothing when the
\* write fails (the exception is swallowed)
append_activation_log(file, result, ok) ==
    IF ok THEN Append(file, result) ELSE file

\* contentful_service.write_activation_log(result.model_dump()): one line
\* appended to the same file, or nothing when the write fails
write_activation_log(file, result, ok) ==
    IF ok THEN Append(file, result) ELSE file

\* the two writes that end the success path and the error path
WriteAuditLog(file, result, ok1, ok2) ==
    write_activation_log(append_activation_log(file, result, ok1), result, ok2)

\* read_latest_activation_log returning the oldest matching line
read_latest_activation_log_Oldest(file, entry_id) ==
    LET matching == {i \in 1..Len(file) : file[i].entry_id = entry_id}
    IN IF matching = {} THEN [found |-> FALSE, record |-> NoResult]
       ELSE [found |-> TRUE,
             record |-> file[CHOOSE i \in matching : \A j \in matching : i <= j]]

\* LiveContentfulService.read_latest_activation_log: the lines are scanned
\* in reverse and the first whose entry_id matches is returned, None when
\* there is none
read_latest_activation_log(file, entry_id) ==
    LET matching == {i \in 1..Len(file) : file[i].entry_id = entry_id}
    IN IF matching = {} THEN [found |-> FALSE, record |-> NoResult]
       ELSE [found |-> TRUE,
             record |-> file[CHOOSE i \in matching : \A j \in matching : i >= j]]

\* get_latest_activation_log answering 200 with an empty body when nothing
\* is found
get_latest_activation_log_Always200(file, entry_id) ==
    [status_code |-> 200, record |-> read_latest_activation_log(file, entry_id).record]

\* GET /activation-log/{entry_id}: 404 when the read gives nothing
get_latest_activation_log(file, entry_id) ==
    LET read == read_latest_activation_log(file, entry_id)
    IN IF ~read.found THEN [status_code |-> 404, record |-> NoResult]
       ELSE [status_code |-> 200, record |-> read.record]

\* number of requests the model issues
MaxRequests == 2

ActivationIds == 1..MaxRequests

\* no external call made yet
NoCalls ==
    [ get_article |-> 0, enrich_content |-> 0, generate_alt_text |-> 0,
      add_to_list |-> 0, append_activation_log |-> 0, write_activation_log |-> 0 ]

\* a request that has not arrived; raised is the message of the exception
\* that reached `except Exception`, dispatch what add_to_list did
Idle ==
    [ pc |-> "idle", entry_id |-> "", enrichment_enabled |-> FALSE,
      article |-> MockArticle, validated |-> FALSE,
      enrichment_data |-> NoEnrichment, errors |-> << >>,
      http |-> 0, result |-> NoResult, calls |-> NoCalls,
      raised |-> "", dispatch |-> "", trace |-> << >> ]

\* activations whose audit-log writes the model lets fail
MaxLogFaults == 1

\* calls of _is_rate_limited in the rate-limiter specification
MaxRateCalls == 4

\* log writes in the audit-log specification
MaxLogWrites == 3

\* no unit call under test
NoUnit == [op |-> "none"]

VARIABLES
    now,               \* time.time(), in seconds
    _client_requests,  \* main._client_requests: client address -> timestamps
    ai_provider,       \* AIService.provider, from AI_PROVIDER
    act,               \* the /activate calls: activation id -> position and locals
    logFile,           \* the lines of ACTIVATION_LOG_PATH
    log_faults,        \* activations with a failed audit-log write so far
    rate_log,          \* rate-limiter specification: the decisions taken, in order
    vIn,               \* validation specification: the keyword arguments under test
    vOut,              \* validation specification: whether ArticleIn(...) ran, the failing fields
    unit               \* unit specifications: the call under test and what it returned

vars ==
    << now, _client_requests, ai_provider, act, logFile, log_faults, rate_log,
       vIn, vOut, unit >>

(***************************************************************************)
(* main.py : activate_content                                              *)
(***************************************************************************)

\* the module state after import: empty rate-limiter history, the services
\* constructed, no request yet, an empty log file
InitPipeline ==
    /\ now = 0
    /\ _client_requests = [c \in Clients |-> << >>]
    /\ ai_provider \in {"openai", "local"}
    /\ act = [a \in ActivationIds |-> Idle]
    /\ logFile = << >>
    /\ log_faults = 0
    /\ rate_log = << >>

Init ==
    /\ InitPipeline
    /\ vIn = MockArticle
    /\ vOut = [done |-> FALSE, errors |-> {}, invalid_tags |-> {}]
    /\ unit = NoUnit

\* RateLimited with the rate check placed after the fetch
RateLimited_AfterFetch(r) ==
    [ r EXCEPT !.pc = "responded", !.http = 429, !.calls.get_article = 1,
               !.trace = r.trace \o << "responded" >> ]

\* raise HTTPException(status_code=429): re-raised by `except HTTPException`
RateLimited(r) ==
    [ r EXCEPT !.pc = "responded", !.http = 429,
               !.trace = r.trace \o << "responded" >> ]

\* ValidationFailed with the validation error recorded and the pipeline going on
ValidationFailed_Continues(r) ==
    [ r EXCEPT !.pc = "dispatching", !.calls.add_to_list = 1,
               !.errors = Append(r.errors, "Validation error") ]

\* errors.append(f"Validation error: ..."); raise HTTPException(status_code=400):
\* re-raised by `except HTTPException`, past both log writes
ValidationFailed(r) ==
    [ r EXCEPT !.pc = "responded", !.http = 400,
               !.errors = Append(r.errors, "Validation error"),
               !.trace = r.trace \o << "failed", "responded" >> ]

\* Failed with the exception left to propagate as a server error
Failed_Propagates(r, a, msg) ==
    [ r EXCEPT !.pc = "responded", !.http = 500, !.raised = msg,
               !.enrichment_data = NoEnrichment,
               !.trace = r.trace \o << "failed", "responded" >> ]

\* Failed with the operation that raised invoked a second time before the
\* error result is built
Failed_RetriesOnce(r, a, msg) ==
    LET errors == ProcessingError(r.errors, msg)
    IN [ r EXCEPT !.pc = "responded", !.http = 200,
                  !.errors = errors,
                  !.raised = msg,
                  !.enrichment_data = NoEnrichment,
                  !.result = ErrorResult(a, r.entry_id, errors),
                  !.calls.get_article = IF msg = CONTENTFUL_ERROR THEN @ + 1 ELSE @,
                  !.calls.enrich_content = IF msg = AI_ERROR THEN @ + 1 ELSE @,
                  !.calls.add_to_list = IF msg = MARKETO_ERROR THEN @ + 1 ELSE @,
                  !.calls.append_activation_log = @ + 1,
                  !.calls.write_activation_log = @ + 1,
                  !.trace = r.trace \o << "failed", "logged", "responded" >> ]

\* Failed with the remaining pipeline still run: the error is recorded and
\* add_to_list is invoked all the same
Failed_StillDispatches(r, a, msg) ==
    LET errors == ProcessingError(r.errors, msg)
    IN [ r EXCEPT !.pc = "responded", !.http = 200,
                  !.errors = errors,
                  !.raised = msg,
                  !.enrichment_data = NoEnrichment,
                  !.result = [ ErrorResult(a, r.entry_id, errors) EXCEPT
                                 !.marketo_response = add_to_list("success") ],
                  !.calls.add_to_list = 1,
                  !.calls.append_activation_log = @ + 1,
                  !.calls.write_activation_log = @ + 1,
                  !.trace = r.trace \o << "failed", "listed", "logged", "responded" >> ]

\* except Exception as e: the error result is built, logged twice, returned
\* (the handler's locals end with it)
Failed(r, a, msg) ==
    LET errors == ProcessingError(r.errors, msg)
    IN [ r EXCEPT !.pc = "responded", !.http = 200,
                  !.errors = errors,
                  !.raised = msg,
                  !.enrichment_data = NoEnrichment,
                  !.result = ErrorResult(a, r.entry_id, errors),
                  !.calls.append_activation_log = @ + 1,
                  !.calls.write_activation_log = @ + 1,
                  !.trace = r.trace \o << "failed", "logged", "responded" >> ]

\* the success path from the return of add_to_list: the result is built,
\* logged twice, returned
Listed(r, a, marketing_response) ==
    [ r EXCEPT !.pc = "responded", !.http = 200,
               !.enrichment_data = NoEnrichment,
               !.result = SuccessResult(a, r.entry_id, r.enrichment_data,
                                        marketing_response, r.errors),
               !.calls.append_activation_log = @ + 1,
               !.calls.write_activation_log = @ + 1,
               !.trace = r.trace \o << "listed", "logged", "responded" >> ]

\* Step 3 of activate_content: enrich_content, generate_alt_text when the
\* article has images and no alt text, then the brand-voice mapping
Enriched(article, provider, enrich, alt) ==
    LET data == enrich_content(provider, enrich = "genuine")
        with_alt == IF article.has_images /\ ~Truthy(article.alt_text) /\ Truthy(alt)
                    THEN [data EXCEPT !.generated_alt_text = alt]
                    ELSE data
    IN [with_alt EXCEPT !.brand_voice = BrandVoice(with_alt.tone_analysis)]

\* EnrichmentRuns with the flag ignored
EnrichmentRuns_Always(enabled) == TRUE

\* `if payload.enrichment_enabled:` of Step 3
EnrichmentRuns(enabled) == enabled

\* `if article.has_images and not article.alt_text:` of Step 3
NeedsAltText(article) == article.has_images /\ ~Truthy(article.alt_text)

\* the handler ends without writing the audit log, or suspends
Returns(a, r) ==
    /\ act' = [act EXCEPT ![a] = r]
    /\ UNCHANGED << logFile, log_faults >>

\* Logs with a failed write reaching the caller as a server error
Logs_WriteRaises(a, r, ok1, ok2) ==
    LET faults == IF ok1 /\ ok2 THEN 0 ELSE 1
    IN /\ log_faults + faults <= MaxLogFaults
       /\ act' = [act EXCEPT ![a] = IF ok1 /\ ok2 THEN r
                                    ELSE [r EXCEPT !.http = 500, !.result = NoResult]]
       /\ logFile' = WriteAuditLog(logFile, r.result, ok1, ok2)
       /\ log_faults' = log_faults + faults

\* the handler ends through append_activation_log and write_activation_log;
\* ok1 and ok2 say which of the two writes goes through
Logs(a, r, ok1, ok2) ==
    LET faults == IF ok1 /\ ok2 THEN 0 ELSE 1
    IN /\ log_faults + faults <= MaxLogFaults
       /\ act' = [act EXCEPT ![a] = r]
       /\ logFile' = WriteAuditLog(logFile, r.result, ok1, ok2)
       /\ log_faults' = log_faults + faults

\* the handler from its first line to `await marketing_service.add_to_list`,
\* or to its end when it ends earlier (asyncio runs it without interleaving)
ActivateStart(a) ==
    /\ act[a].pc = "idle"
    /\ \A b \in ActivationIds : b < a => act[b].pc # "idle"
    /\ \E client \in Clients, entry_id \in EntryIds, enabled \in BOOLEAN :
        LET rl == _is_rate_limited(_client_requests[client], now)
            r0 == [ Idle EXCEPT !.entry_id = entry_id,
                                !.enrichment_enabled = enabled,
                                !.trace = << "received" >> ]
            r1 == [ r0 EXCEPT !.calls.get_article = 1,
                              !.trace = @ \o << "rate_checked" >> ]
        IN /\ _client_requests' = [_client_requests EXCEPT ![client] = rl.history]
           /\ IF rl.limited
              THEN Returns(a, RateLimited(r0))
              ELSE \E fetched \in GetArticleOutcomes :
                LET article == fetched.article
                    r2 == [ r1 EXCEPT !.article = article,
                                      !.trace = @ \o << "fetched" >> ]
                    r3 == [ r2 EXCEPT !.validated = TRUE,
                                      !.trace = @ \o << "validated" >> ]
                    r4 == [ r3 EXCEPT !.calls.enrich_content = 1 ]
                    r5(enrich, alt) ==
                        [ r4 EXCEPT
                            !.calls.generate_alt_text =
                                IF NeedsAltText(article) THEN 1 ELSE 0,
                            !.enrichment_data =
                                Enriched(article, ai_provider, enrich, alt),
                            !.trace = @ \o << "enriched", "advised" >> ]
                    awaiting(r) == [ r EXCEPT !.pc = "dispatching",
                                              !.calls.add_to_list = 1 ]
                IN IF fetched.raises
                   THEN \E ok1 \in BOOLEAN, ok2 \in BOOLEAN :
                            Logs(a, Failed(r1, a, CONTENTFUL_ERROR), ok1, ok2)
                   ELSE IF ~ArticleInValid(article)
                   THEN Returns(a, ValidationFailed(r2))
                   ELSE IF ~EnrichmentRuns(enabled)
                   THEN Returns(a, awaiting(r3))
                   ELSE \E enrich \in EnrichOutcomes :
                        IF enrich = "raises"
                        THEN \E ok1 \in BOOLEAN, ok2 \in BOOLEAN :
                                Logs(a, Failed(r4, a, AI_ERROR), ok1, ok2)
                        ELSE \E urls_found \in BOOLEAN, vision \in VisionOutcomes :
                            LET generated ==
                                    IF NeedsAltText(article)
                                    THEN generate_alt_text_for_images(article, urls_found, vision)
                                    ELSE [raised |-> FALSE, value |-> None]
                            IN /\ ~NeedsAltText(article) =>
                                      ~urls_found /\ vision = "described"
                               /\ generated.value \in AltTextOutcomes
                               /\ IF generated.raised
                                  THEN \E ok1 \in BOOLEAN, ok2 \in BOOLEAN :
                                          Logs(a, Failed([r4 EXCEPT !.calls.generate_alt_text = 1],
                                                         a, VISION_ERROR), ok1, ok2)
                                  ELSE Returns(a, awaiting(r5(enrich, generated.value)))
    /\ UNCHANGED << now, ai_provider, rate_log, vIn, vOut, unit >>

\* the handler from the completion of add_to_list to its return
ActivateFinish(a) ==
    /\ act[a].pc = "dispatching"
    /\ \E outcome \in AddToListOutcomes, ok1 \in BOOLEAN, ok2 \in BOOLEAN :
        LET r == [act[a] EXCEPT !.dispatch = outcome]
        IN Logs(a,
                IF outcome = "raises" THEN Failed(r, a, MARKETO_ERROR)
                ELSE Listed(r, a, add_to_list(outcome)),
                ok1, ok2)
    /\ UNCHANGED << now, _client_requests, ai_provider, rate_log, vIn, vOut, unit >>

Next ==
    \/ \E a \in ActivationIds : ActivateStart(a)
    \/ \E a \in ActivationIds : ActivateFinish(a)

\* requests arriving within one second of each other; the clock is
\* advanced in SpecRate
Spec == Init /\ [][Next]_vars

(***************************************************************************)
(* Rate-limiter specification: _is_rate_limited called as time passes      *)
(***************************************************************************)

\* time passes
Tick ==
    /\ now + TickSec <= MaxTime
    /\ now' = now + TickSec
    /\ UNCHANGED << _client_requests, ai_provider, act, logFile, log_faults,
                    rate_log, vIn, vOut, unit >>

\* one call _is_rate_limited(client_ip), as the first step of a request
RateCall ==
    /\ Len(rate_log) < MaxRateCalls
    /\ \E client \in Clients :
        LET rl == _is_rate_limited(_client_requests[client], now)
        IN /\ _client_requests' = [_client_requests EXCEPT ![client] = rl.history]
           /\ rate_log' = Append(rate_log,
                                 [client |-> client, t |-> now, limited |-> rl.limited])
    /\ UNCHANGED << now, ai_provider, act, logFile, log_faults, vIn, vOut, unit >>

NextRate == RateCall \/ Tick

InitRate ==
    /\ Init
    /\ ai_provider = "openai"

SpecRate == InitRate /\ [][NextRate]_vars

(***************************************************************************)
(* Validation specification: ArticleIn applied to drawn keyword arguments  *)
(***************************************************************************)

InitValidate ==
    /\ InitPipeline
    /\ ai_provider = "openai"
    /\ vIn \in ArticleKwargs
    /\ vOut = [done |-> FALSE, errors |-> {}, invalid_tags |-> {}]
    /\ unit = NoUnit

\* article = ArticleIn(...)
Construct ==
    /\ ~vOut.done
    /\ vOut' = [done |-> TRUE, errors |-> ArticleInErrors(vIn),
                invalid_tags |-> InvalidTags(vIn.campaign_tags)]
    /\ UNCHANGED << vIn, now, _client_requests, ai_provider, act, logFile, log_faults,
                    rate_log, unit >>

NextValidate == Construct

SpecValidate == InitValidate /\ [][NextValidate]_vars

(***************************************************************************)
(* Enrichment specification: enrich_content applied to drawn model outputs *)
(***************************************************************************)

InitEnrich ==
    /\ InitPipeline
    /\ vIn = MockArticle
    /\ vOut = [done |-> FALSE, errors |-> {}, invalid_tags |-> {}]
    /\ \E title \in EnrichTitles, model \in ModelOutcomes :
          unit = [ op |-> "enrich_content", provider |-> ai_provider,
                   title |-> title, model |-> model, done |-> FALSE,
                   ret |-> Returned(Payload("", << >>, NoTone, "", FALSE, None)) ]

\* enrichment_result = ai_service.enrich_content(article.model_dump())
Enrich ==
    /\ unit.op = "enrich_content" /\ ~unit.done
    /\ unit' = [ unit EXCEPT
                   !.done = TRUE,
                   !.ret = AIService_enrich_content(unit.provider, unit.title,
                                                    unit.model) ]
    /\ UNCHANGED << now, _client_requests, ai_provider, act, logFile, log_faults,
                    rate_log, vIn, vOut >>

NextEnrich == Enrich

SpecEnrich == InitEnrich /\ [][NextEnrich]_vars

(***************************************************************************)
(* Audit-log specification: writes of results, reads of the latest record  *)
(***************************************************************************)

\* no GET /activation-log answered yet
NoRead == [entry_id |-> "", status_code |-> 0, record |-> NoResult]

\* written: per entry id the record of the last write that went through;
\* writes: log writes attempted; read: the last answer of the read endpoint
InitLog ==
    /\ InitPipeline
    /\ ai_provider = "openai"
    /\ vIn = MockArticle
    /\ vOut = [done |-> FALSE, errors |-> {}, invalid_tags |-> {}]
    /\ unit = [ op |-> "activation_log", writes |-> 0,
                written |-> [e \in EntryIds |-> NoResult], read |-> NoRead ]

\* one of the two writers appends the result of an activation of entry_id
WriteLog ==
    /\ unit.op = "activation_log" /\ unit.writes < MaxLogWrites
    /\ \E entry_id \in EntryIds, failed \in BOOLEAN, local \in BOOLEAN, ok \in BOOLEAN :
        LET result == IF failed
                      THEN ErrorResult(unit.writes + 1, entry_id,
                                       ProcessingError(<< >>, MARKETO_ERROR))
                      ELSE SuccessResult(unit.writes + 1, entry_id, NoEnrichment,
                                         add_to_list("success"), << >>)
        IN /\ logFile' = IF local THEN append_activation_log(logFile, result, ok)
                         ELSE write_activation_log(logFile, result, ok)
           /\ unit' = [ unit EXCEPT
                          !.writes = @ + 1,
                          !.written[entry_id] = IF ok THEN result ELSE @ ]
    /\ UNCHANGED << now, _client_requests, ai_provider, act, log_faults, rate_log,
                    vIn, vOut >>

\* GET /activation-log/{entry_id}
ReadLog ==
    /\ unit.op = "activation_log"
    /\ \E entry_id \in EntryIds :
        LET response == get_latest_activation_log(logFile, entry_id)
        IN unit' = [ unit EXCEPT
                       !.read = [ entry_id |-> entry_id,
                                  status_code |-> response.status_code,
                                  record |-> response.record ] ]
    /\ UNCHANGED << now, _client_requests, ai_provider, act, logFile, log_faults,
                    rate_log, vIn, vOut >>

NextLog == WriteLog \/ ReadLog

SpecLog == InitLog /\ [][NextLog]_vars

(***************************************************************************)
(* Platform specification: the factory, GET /platform and a dispatch       *)
(***************************************************************************)

InitPlatform ==
    /\ InitPipeline
    /\ ai_provider = "openai"
    /\ vIn = MockArticle
    /\ vOut = [done |-> FALSE, errors |-> {}, invalid_tags |-> {}]
    /\ \E env \in PlatformEnv, token \in TokenEnv :
          unit = [ op |-> "platform", MARKETING_PLATFORM |-> env,
                   HUBSPOT_ACCESS_TOKEN |-> token, created |-> FALSE,
                   marketing_service |-> NoAdapter, info |-> NoPlatformInfo,
                   served_by |-> "", response |-> NoResponse ]

\* marketing_service = MarketingPlatformFactory.create_service()
CreateService ==
    /\ unit.op = "platform" /\ ~unit.created
    /\ unit' = [ unit EXCEPT
                   !.created = TRUE,
                   !.marketing_service =
                       create_service(unit.MARKETING_PLATFORM,
                                      unit.HUBSPOT_ACCESS_TOKEN) ]
    /\ UNCHANGED << now, _client_requests, ai_provider, act, logFile, log_faults,
                    rate_log, vIn, vOut >>

\* GET /platform
GetPlatformInfo ==
    /\ unit.op = "platform" /\ unit.created /\ ~unit.marketing_service.raised
    /\ unit' = [unit EXCEPT !.info = get_platform_info(unit.MARKETING_PLATFORM)]
    /\ UNCHANGED << now, _client_requests, ai_provider, act, logFile, log_faults,
                    rate_log, vIn, vOut >>

\* await marketing_service.add_to_list(...): the adapter calls its service
Dispatch ==
    /\ unit.op = "platform" /\ unit.created /\ ~unit.marketing_service.raised
    /\ \E outcome \in BackendOutcomes(unit.marketing_service.service) :
          unit' = [ unit EXCEPT
                      !.served_by = unit.marketing_service.service,
                      !.response = add_to_list(outcome) ]
    /\ UNCHANGED << now, _client_requests, ai_provider, act, logFile, log_faults,
                    rate_log, vIn, vOut >>

NextPlatform == CreateService \/ GetPlatformInfo \/ Dispatch

SpecPlatform == InitPlatform /\ [][NextPlatform]_vars

(***************************************************************************)
(* Brand-voice specification: the advisory mapping on drawn tone scores    *)
(***************************************************************************)

InitVoice ==
    /\ InitPipeline
    /\ ai_provider = "openai"
    /\ vIn = MockArticle
    /\ vOut = [done |-> FALSE, errors |-> {}, invalid_tags |-> {}]
    /\ \E p \in ToneScoreInputs, c \in ToneScoreInputs, a \in ToneScoreInputs :
          unit = [ op |-> "brand_voice", tone |-> Tone(p, c, a), done |-> FALSE,
                   brand_voice |-> NoBrandVoice ]

\* the brand-voice advisory mapping of Step 3
Advise ==
    /\ unit.op = "brand_voice" /\ ~unit.done
    /\ unit' = [unit EXCEPT !.done = TRUE, !.brand_voice = BrandVoice(unit.tone)]
    /\ UNCHANGED << now, _client_requests, ai_provider, act, logFile, log_faults,
                    rate_log, vIn, vOut >>

NextVoice == Advise

SpecVoice == InitVoice /\ [][NextVoice]_vars

(***************************************************************************)
(* Log-reader specification: read_latest_activation_log over a file whose  *)
(* lines need not be records                                               *)
(***************************************************************************)

\* lines of the file under read
MaxLines == 3

\* a line json.loads turns into a dict with an entry_id
RecordLine(entry_id, activation_id) ==
    [kind |-> "object", entry_id |-> entry_id, activation_id |-> activation_id]

\* a line json.loads rejects (a torn write, plain text)
TextLine == [kind |-> "text", entry_id |-> "", activation_id |-> 0]

\* a line json.loads accepts as something other than a dict (null, a
\* number, a string, a list)
ValueLine == [kind |-> "value", entry_id |-> "", activation_id |-> 0]

LogLineInputs ==
    { RecordLine(e, n) : e \in EntryIds, n \in 1..2 } \cup {TextLine, ValueLine}

\* nothing returned yet
NoScan == [found |-> FALSE, index |-> 0]

\* `for line in reversed(lines)` from line i down: a line json.loads rejects
\* is skipped (inner except: continue); on a parsed value that is not a dict
\* record.get raises AttributeError, which the outer `except Exception`
\* turns into `return None`; the first dict with the entry_id is returned
RECURSIVE ScanReversed(_, _, _)
ScanReversed(lines, i, entry_id) ==
    IF i = 0 THEN NoScan
    ELSE IF lines[i].kind = "text" THEN ScanReversed(lines, i - 1, entry_id)
    ELSE IF lines[i].kind = "value" THEN NoScan
    ELSE IF lines[i].entry_id = entry_id THEN [found |-> TRUE, index |-> i]
    ELSE ScanReversed(lines, i - 1, entry_id)

\* a file of any lines, an entry id asked for, nothing read yet
InitScan ==
    /\ InitPipeline
    /\ ai_provider = "openai"
    /\ vIn = MockArticle
    /\ vOut = [done |-> FALSE, errors |-> {}, invalid_tags |-> {}]
    /\ \E lines \in SeqsUpTo(LogLineInputs, MaxLines), entry_id \in EntryIds :
          unit = [ op |-> "scan_log", lines |-> lines, entry_id |-> entry_id,
                   done |-> FALSE, returned |-> NoScan ]

\* contentful_service.read_latest_activation_log(entry_id)
ScanLog ==
    /\ unit.op = "scan_log" /\ ~unit.done
    /\ unit' = [ unit EXCEPT
                   !.done = TRUE,
                   !.returned = ScanReversed(unit.lines, Len(unit.lines), unit.entry_id) ]
    /\ UNCHANGED << now, _client_requests, ai_provider, act, logFile, log_faults,
                    rate_log, vIn, vOut >>

NextScan == ScanLog

SpecScan == InitScan /\ [][NextScan]_vars

(***************************************************************************)
(* Properties                                                              *)
(***************************************************************************)

\* the handler of activation a has returned or raised
Responded(a) == act[a].pc = "responded"

\* lines of the audit log written for activation a
LogLines(a) == {i \in 1..Len(logFile) : logFile[i].activation_id = a}

\* activation a passed through state st
Passed(a, st) == st \in Range(act[a].trace)

\* C1: every request that enters the pipeline (is not rejected by the rate
\* limiter) ends with its result handed exactly once to each audit-log
\* entry point and passes through logged before responded, also after a
\* validation failure or an upstream failure.
C1_AuditedExactlyOnce ==
    \A a \in ActivationIds :
        (Responded(a) /\ Passed(a, "rate_checked")) =>
            /\ act[a].calls.append_activation_log = 1
            /\ act[a].calls.write_activation_log = 1
            /\ Passed(a, "logged")

\* status is "error" iff the errors list is non-empty
StatusMatchesErrors(result) ==
    /\ result.status \in {"success", "error"}
    /\ (result.status = "error") <=> (Len(result.errors) > 0)

\* C2: every ActivationResult returned by /activate or written to the audit
\* log has status "error" if and only if its errors list is non-empty.
C2_StatusIffErrors ==
    /\ \A a \in ActivationIds :
        (Responded(a) /\ act[a].http = 200) => StatusMatchesErrors(act[a].result)
    /\ \A i \in 1..Len(logFile) : StatusMatchesErrors(logFile[i])

\* a success and an error result have been returned and both are in the log
C2_Witness ==
    \E a, b \in ActivationIds :
        /\ Responded(a) /\ act[a].result.status = "success" /\ LogLines(a) # {}
        /\ Responded(b) /\ act[b].result.status = "error" /\ LogLines(b) # {}

C4_ValidationFailureIsTerminal ==
    \A a \in ActivationIds :
        (Passed(a, "fetched") /\ ~ArticleInValid(act[a].article)) =>
            /\ Responded(a)
            /\ act[a].http = 400
            /\ act[a].calls.enrich_content = 0
            /\ act[a].calls.generate_alt_text = 0
            /\ act[a].calls.add_to_list = 0

\* an activation whose article has an invalid campaign tag has ended,
\* with enrichment enabled
C4_Witness ==
    \E a \in ActivationIds :
        /\ Responded(a) /\ Passed(a, "fetched")
        /\ ~ArticleInValid(act[a].article)
        /\ act[a].enrichment_enabled

\* C5: a request beyond the rate limit is rejected with 429 before any
\* external call: no call of the content source, enrichment, vision or the
\* marketing platform is made for it, no result is built, and the step that
\* rejects it leaves the audit log unchanged.
C5_RateLimitFailsFast ==
    [][ \A a \in ActivationIds :
            act'[a].http = 429 =>
                /\ act'[a].calls = NoCalls
                /\ act'[a].result = NoResult
                /\ LogLines(a)' = {}
                /\ (act[a].http # 429 => logFile' = logFile) ]_vars

\* a request was rejected while another activation had written the log
C5_Witness ==
    \E a, b \in ActivationIds :
        /\ act[a].http = 429
        /\ LogLines(b) # {}

\* admitted calls of client c before call k that are inside the window of
\* call k
AdmittedInWindow(k) ==
    { j \in 1..(k - 1) :
        /\ rate_log[j].client = rate_log[k].client
        /\ ~rate_log[j].limited
        /\ rate_log[j].t >= rate_log[k].t - _RATE_LIMIT_WINDOW_SEC }

\* C6: per client, with N the configured maximum: a request is admitted
\* while fewer than N admitted requests of that client lie inside the
\* window (so the first N of a window are admitted, and a request is
\* admitted again once the window has elapsed since the earlier ones), and
\* it is rejected when N admitted requests lie inside the window (the
\* (N+1)th of a window).
C6_SlidingWindow ==
    \A k \in 1..Len(rate_log) :
        rate_log[k].limited <=>
            Cardinality(AdmittedInWindow(k)) >= _RATE_LIMIT_MAX_REQUESTS

\* one client was admitted, then rejected inside the window, then admitted
\* again after the window had elapsed
C6_Witness ==
    \E i, j, k \in 1..Len(rate_log) :
        /\ i < j /\ j < k
        /\ rate_log[i].client = rate_log[j].client
        /\ rate_log[j].client = rate_log[k].client
        /\ ~rate_log[i].limited /\ rate_log[j].limited /\ ~rate_log[k].limited
        /\ rate_log[j].t - rate_log[i].t <= _RATE_LIMIT_WINDOW_SEC
        /\ rate_log[k].t - rate_log[i].t > _RATE_LIMIT_WINDOW_SEC

\* every field other than alt_text validates
OtherThanAltTextValid(kw) ==
    /\ TitleOk(kw) /\ BodyOk(kw) /\ SummaryOk(kw) /\ CampaignTagsOk(kw)
    /\ CtaTextOk(kw) /\ validate_cta_url_format(kw.cta_url)

\* C7: with all other fields valid, has_images=true with alt_text None
\* fails validation, and has_images=true with a non-empty alt_text passes.
C7_AltTextRequiredWithImages ==
    (vOut.done /\ OtherThanAltTextValid(vIn) /\ vIn.has_images) =>
        /\ vIn.alt_text.isNone => vOut.errors # {}
        /\ Truthy(vIn.alt_text) => vOut.errors = {}

\* the tokens of v outside the controlled vocabulary
Offending(v) == {v[i] : i \in {j \in 1..Len(v) : v[j] \notin allowed_tags}}

\* C8: a non-empty campaign_tags list inside the vocabulary validates (the
\* whole article does when its other fields are valid); a list with a
\* token outside the vocabulary fails and the invalid set reported is
\* exactly the offending tokens; the empty list fails.
C8_ControlledVocabulary ==
    vOut.done =>
        LET v == vIn.campaign_tags
        IN /\ (v # << >> /\ Offending(v) = {}) =>
                 /\ "campaign_tags" \notin vOut.errors
                 /\ vOut.errors \subseteq {"title", "body", "summary", "cta_text", "cta_url"}
           /\ Offending(v) # {} =>
                 /\ "campaign_tags" \in vOut.errors
                 /\ vOut.invalid_tags = Offending(v)
           /\ v = << >> => "campaign_tags" \in vOut.errors

\* a list mixing a valid and an invalid token was rejected, and only the
\* invalid token was reported
C8_Witness ==
    /\ vOut.done
    /\ vIn.campaign_tags = << "marketer", "invalid-tag" >>
    /\ vOut.invalid_tags = {"invalid-tag"}
    /\ "campaign_tags" \in vOut.errors

\* C9: every present cta_url that does not start with "http://" or
\* "https://", the empty string included, fails validation, and every
\* value that starts with one of them passes when the rest is valid.
C9_CtaUrlFormat ==
    (vOut.done /\ ~vIn.cta_url.isNone) =>
        LET url == vIn.cta_url.s
            absolute == StartsWith(url, "http://") \/ StartsWith(url, "https://")
        IN /\ ~absolute => "cta_url" \in vOut.errors
           /\ (absolute /\ vOut.errors \subseteq {"cta_url"}) => vOut.errors = {}

\* C10: with enrichment_enabled false and a valid article, enrichment and
\* vision are never invoked, and once add_to_list has returned its success
\* envelope the result has status "success", no enrichment_data and a
\* marketo_response.
C10_DisabledEnrichmentIsSkipped ==
    \A a \in ActivationIds :
        (act[a].validated /\ ~act[a].enrichment_enabled) =>
            /\ act[a].calls.enrich_content = 0
            /\ act[a].calls.generate_alt_text = 0
            /\ ~act[a].enrichment_data.present
            /\ (Responded(a) /\ act[a].dispatch = "success") =>
                  /\ act[a].http = 200
                  /\ act[a].result.status = "success"
                  /\ ~act[a].result.enrichment_data.present
                  /\ act[a].result.marketo_response.present

\* an activation with enrichment disabled, for an article with images and
\* no alt text, has been dispatched successfully
C10_Witness ==
    \E a \in ActivationIds :
        /\ Responded(a) /\ act[a].validated /\ ~act[a].enrichment_enabled
        /\ act[a].dispatch = "success"
        /\ act[a].article.has_images

\* the step in which activation a ends after ai_service.enrich_content raised
EnrichmentThrew(a) ==
    /\ act[a].pc # "responded" /\ act'[a].pc = "responded"
    /\ act'[a].enrichment_enabled /\ act'[a].raised = AI_ERROR

\* C11 as stated: when the enrichment call throws, /activate responds with
\* status "error" and a non-empty errors list, and the log-read endpoint
\* then returns the audit record of that failed activation.
C11_FailedActivationRetrievable ==
    [][ \A a \in ActivationIds :
            EnrichmentThrew(a) =>
                /\ act'[a].http = 200
                /\ act'[a].result.status = "error"
                /\ Len(act'[a].result.errors) > 0
                /\ get_latest_activation_log(logFile', act'[a].entry_id) =
                       [status_code |-> 200, record |-> act'[a].result] ]_vars

\* C11 amended: when the enrichment call throws, /activate responds with
\* status "error" and a non-empty errors list; the log-read endpoint then
\* returns the audit record of that failed activation if at least one of
\* its two log writes went through, and what it returned before otherwise.
C11_FailedActivationRetrievableIfWritten ==
    [][ \A a \in ActivationIds :
            EnrichmentThrew(a) =>
                /\ act'[a].http = 200
                /\ act'[a].result.status = "error"
                /\ Len(act'[a].result.errors) > 0
                /\ get_latest_activation_log(logFile', act'[a].entry_id) =
                       IF logFile' # logFile
                       THEN [status_code |-> 200, record |-> act'[a].result]
                       ELSE get_latest_activation_log(logFile, act'[a].entry_id) ]_vars

\* an activation failed in enrichment after an earlier activation of the
\* same entry had been logged, and its own record is in the log
C11_Witness ==
    \E a, b \in ActivationIds :
        /\ b < a /\ act[a].entry_id = act[b].entry_id
        /\ Responded(a) /\ act[a].raised = AI_ERROR /\ act[a].enrichment_enabled
        /\ LogLines(a) # {} /\ LogLines(b) # {}
        /\ get_latest_activation_log(logFile, act[a].entry_id).record = act[a].result

\* enrich_content has been called
Enrichment == unit.op = "enrich_content" /\ unit.done

\* C12: for both providers, when the underlying model call raises,
\* enrich_content does not raise: it returns a schema-valid payload with
\* fallback = true and a non-empty error string naming the failure.
C12_ProviderFailureFallsBack ==
    (Enrichment /\ unit.model.raises) =>
        /\ ~unit.ret.raised
        /\ SchemaValid(unit.ret.payload)
        /\ unit.ret.payload.fallback
        /\ ~unit.ret.payload.error.isNone
        /\ Len(unit.ret.payload.error.s) > 0
        /\ unit.ret.payload.error.s =
              (IF unit.provider = "local" THEN "Ollama error: "
               ELSE "OpenAI API error: ") \o unit.model.message

\* the cloud provider has returned its fallback after a failed model call
C12_Witness ==
    /\ Enrichment /\ unit.model.raises /\ unit.provider = "openai"
    /\ unit.model.message = "API Error" /\ unit.ret.payload.fallback

\* s ends with an ellipsis
EndsWithEllipsis(s) == Len(s) >= 3 /\ SubSeq(s, Len(s) - 2, Len(s)) = "..."

\* C13: every payload enrich_content returns has 1 to 7 keywords and a
\* description of at most 160 characters, and when the description the
\* model returned is longer than 160 characters the returned description
\* is a truncation of it that ends with an ellipsis.
C13_PayloadWithinLimits ==
    Enrichment =>
        LET p == unit.ret.payload
            raw == IF unit.provider = "local" THEN CleanedSummary(unit.model.summary)
                   ELSE SummaryText(unit.model.summary)
        IN /\ Len(p.keywords) >= 1 /\ Len(p.keywords) <= 7
           /\ Len(p.suggested_meta_description) <= 160
           /\ (~unit.model.raises /\ Len(raw) > 160) =>
                 /\ Len(p.suggested_meta_description) < Len(raw)
                 /\ EndsWithEllipsis(p.suggested_meta_description)

\* C14: after any sequence of log writes, the read endpoint answers for an
\* entry id with the record of the most recent write for that id that went
\* through, and with 404 exactly when no record of that id was written.
C14_ReadReturnsLatest ==
    [][ (unit.op = "activation_log" /\ unit'.writes = unit.writes) =>
            LET e == unit'.read.entry_id
            IN IF unit.written[e] = NoResult
               THEN unit'.read.status_code = 404
               ELSE /\ unit'.read.status_code = 200
                    /\ unit'.read.record = unit.written[e] ]_vars

\* after two writes for one entry id and one for another, the read
\* returned the second of the two
C14_Witness ==
    /\ unit.op = "activation_log"
    /\ Len(logFile) = 3
    /\ \E i, j, k \in 1..3 :
          /\ i < j /\ k # i /\ k # j
          /\ logFile[i].entry_id = logFile[j].entry_id
          /\ logFile[k].entry_id # logFile[i].entry_id
          /\ unit.read.entry_id = logFile[i].entry_id
          /\ unit.read.status_code = 200
          /\ unit.read.record = logFile[j]

\* the step in which activation a ends on a path that writes the audit log
Completes(a) ==
    /\ act[a].pc # "responded" /\ act'[a].pc = "responded"
    /\ act'[a].calls.append_activation_log = 1

\* C15: a failure of either audit-log write is swallowed: whatever the two
\* writes did, the caller gets HTTP 200 and the ActivationResult the
\* handler had built (status and errors from the exception caught, if any;
\* payload from the enrichment data and the platform's response).
C15_LogFailureSwallowed ==
    [][ \A a \in ActivationIds :
            Completes(a) =>
                /\ act'[a].http = 200
                /\ act'[a].result =
                     IF act'[a].raised # ""
                     THEN ErrorResult(a, act'[a].entry_id,
                                      << "Processing error: " \o act'[a].raised >>)
                     ELSE SuccessResult(a, act'[a].entry_id, act[a].enrichment_data,
                                        add_to_list(act'[a].dispatch), << >>) ]_vars

\* one activation returned its success result with both writes lost, and
\* another returned with both writes made
C15_Witness ==
    \E a, b \in ActivationIds :
        /\ Responded(a) /\ act[a].result.status = "success"
        /\ act[a].calls.write_activation_log = 1 /\ LogLines(a) = {}
        /\ Responded(b) /\ Cardinality(LogLines(b)) = 2

\* C16: every activation of an article with has_images true that ends with
\* status "success" has alt text by then: the article's alt_text is
\* present, or the enrichment payload carries a generated_alt_text.
C16_AltTextByCompletion ==
    \A a \in ActivationIds :
        (Responded(a) /\ act[a].result.status = "success" /\ act[a].article.has_images) =>
            \/ Truthy(act[a].article.alt_text)
            \/ /\ act[a].result.enrichment_data.present
               /\ Truthy(act[a].result.enrichment_data.generated_alt_text)

\* the factory has run
Created == unit.op = "platform" /\ unit.created

\* C17: for every value of MARKETING_PLATFORM and every credential state
\* create_service does not raise and returns an adapter around one of the
\* three services, which then serves add_to_list; around the mock service
\* when HubSpot cannot be initialised or the platform name is unknown.
C17_FactoryNeverFails ==
    Created =>
        LET platform == ConfiguredPlatform(unit.MARKETING_PLATFORM)
            service == unit.marketing_service.service
        IN /\ ~unit.marketing_service.raised
           /\ service \in KnownPlatforms
           /\ unit.served_by # "" => unit.served_by = service /\ unit.response.present
           /\ platform \notin {"marketo", "hubspot"} => service = "mock"
           /\ platform = "marketo" => service = "marketo"
           /\ platform = "hubspot" =>
                 service = (IF Truthy(unit.HUBSPOT_ACCESS_TOKEN) THEN "hubspot"
                            ELSE "mock")

\* HubSpot was configured without a token, and the adapter made served a
\* dispatch with the mock service
C17_Witness ==
    /\ Created
    /\ unit.MARKETING_PLATFORM = Str("hubspot")
    /\ unit.HUBSPOT_ACCESS_TOKEN = None
    /\ unit.served_by = "mock" /\ unit.response.success

\* C19: in every configuration, what GET /platform reports as current
\* platform, and the details it gives, identify the backend the factory
\* created and that serves add_to_list.
C19_PlatformInfoMatchesBackend ==
    (Created /\ unit.info.present) =>
        /\ unit.info.current_platform = unit.marketing_service.service
        /\ unit.info.platform_details = PlatformName(unit.marketing_service.service)
        /\ unit.served_by # "" => unit.info.current_platform = unit.served_by

\* the verdict for a value in hundredths: pass from 0.8, advisory from 0.6
Verdict(hundredths) ==
    IF hundredths >= 80 THEN "pass"
    ELSE IF hundredths >= 60 THEN "advisory"
    ELSE "attention"

\* a score in hundredths, 0 when missing
Raw(score) == IF score = -1 THEN 0 ELSE score

\* each tone score is mapped through the thresholds
CategoriesMapped ==
    /\ unit.brand_voice.professionalism = Verdict(Raw(unit.tone.professional))
    /\ unit.brand_voice.confidence = Verdict(Raw(unit.tone.confident))
    /\ unit.brand_voice.action_orientation = Verdict(Raw(unit.tone.action_oriented))

\* three times the arithmetic mean of the raw scores
ThriceMean ==
    Raw(unit.tone.professional) + Raw(unit.tone.confident)
        + Raw(unit.tone.action_oriented)

RECURSIVE Stamps(_)
\* timestamps held in the histories of the clients in S
Stamps(S) ==
    IF S = {} THEN 0
    ELSE LET c == CHOOSE x \in S : TRUE
         IN Len(_client_requests[c]) + Stamps(S \ {c})

\* activations admitted by the rate limiter
Admitted == {a \in ActivationIds : Passed(a, "rate_checked")}

\* C20: under every interleaving of /activate requests the rate check acts
\* as one atomic step: every admitted request has its timestamp in its
\* client's history (none is lost), and no client has more than the
\* configured maximum admitted within the window.
C20_RateCheckAtomic ==
    /\ Stamps(Clients) = Cardinality(Admitted)
    /\ \A c \in Clients : Len(_client_requests[c]) <= _RATE_LIMIT_MAX_REQUESTS

\* a request was rate-checked and rejected while an earlier one was
\* awaiting add_to_list
C20_Witness ==
    \E a, b \in ActivationIds :
        /\ a # b
        /\ act[a].pc = "dispatching"
        /\ act[b].http = 429
        /\ Stamps(Clients) = 1

RespondedWithFallback(a) ==
    /\ Responded(a) /\ act[a].enrichment_enabled
    /\ act[a].result.enrichment_data.present
    /\ act[a].result.enrichment_data.fallback

\* C22: when enrichment is enabled and the provider's model call fails (the
\* provider hands back its fallback result), the ActivationResult has a
\* non-empty errors list and status "error".
C22_FallbackRecordedAsError ==
    \A a \in ActivationIds :
        RespondedWithFallback(a) =>
            /\ act[a].result.status = "error"
            /\ Len(act[a].result.errors) > 0

\* the platform dispatch of activation a failed: add_to_list raised or
\* returned an envelope with success false
DispatchFailed(a) ==
    Responded(a) /\ act[a].dispatch \in {"raises", "failure_envelope"}

\* C23: every failure of add_to_list, raised or returned as a failure
\* envelope, becomes an entry of the activation's errors list with status
\* "error"; no activation whose dispatch failed is returned or logged with
\* status "success".
C23_DispatchFailureIsError ==
    \A a \in ActivationIds :
        DispatchFailed(a) =>
            /\ act[a].result.status = "error"
            /\ Len(act[a].result.errors) > 0
            /\ \A i \in LogLines(a) : logFile[i].status = "error"

\* C24: when enrichment completed for an activation and the platform
\* dispatch that followed failed, the response and the audit records of
\* that activation still carry the enrichment payload.
C24_PartialCompletionKept ==
    \A a \in ActivationIds :
        (DispatchFailed(a) /\ Passed(a, "enriched")) =>
            /\ act[a].result.enrichment_data.present
            /\ \A i \in LogLines(a) : logFile[i].enrichment_data.present

\* the enrichment payloads activation a holds: the handler's local while
\* add_to_list is awaited, the result's once it has responded
Payloads(a) == {act[a].enrichment_data, act[a].result.enrichment_data}

\* C25: enrichment_data contains a brand_voice entry if and only if
\* enrichment was enabled and its result is genuine (not a fallback, no
\* error); brand_voice is never derived from a fallback result, which has
\* no tone analysis.
C25_BrandVoiceOnlyFromGenuine ==
    \A a \in ActivationIds : \A d \in Payloads(a) :
        /\ d.brand_voice.present =>
              /\ act[a].enrichment_enabled
              /\ ~d.fallback /\ d.error = None /\ d.tone_analysis.present
        /\ (d.present /\ ~d.fallback /\ d.error = None) => d.brand_voice.present

\* generate_alt_text ran for activation a and did not produce a description:
\* no URL was found (nothing attached) or the vision call failed (the
\* placeholder attached)
AltTextFailed(a) ==
    /\ act[a].calls.generate_alt_text = 1
    /\ \A d \in Payloads(a) :
          d.present => d.generated_alt_text \in {None, Str("Image description unavailable")}

\* C26: a failure during alt-text generation never aborts the activation:
\* no exception of it reaches the handler, the enrichment payload is kept
\* (with the placeholder when the vision call failed) and add_to_list is
\* invoked.
C26_AltTextFailureNeverAborts ==
    \A a \in ActivationIds :
        act[a].calls.generate_alt_text = 1 =>
            /\ act[a].raised \in {"", MARKETO_ERROR}
            /\ act[a].calls.enrich_content = 1
            /\ act[a].calls.add_to_list = 1
            /\ Passed(a, "enriched")
            /\ act[a].pc = "dispatching" => act[a].enrichment_data.present
            /\ (Responded(a) /\ act[a].dispatch # "raises") =>
                  /\ act[a].http = 200
                  /\ act[a].result.enrichment_data.present
                  /\ act[a].result.marketo_response.present

\* the vision call failed for one activation and no image URL was found for
\* another; both went on to the platform
C26_Witness ==
    \E a, b \in ActivationIds :
        /\ Responded(a) /\ AltTextFailed(a) /\ act[a].dispatch = "success"
        /\ act[a].result.enrichment_data.generated_alt_text
              = Str("Image description unavailable")
        /\ Responded(b) /\ AltTextFailed(b) /\ act[b].dispatch = "success"
        /\ act[b].result.enrichment_data.generated_alt_text = None

\* the external operations of one activation
ExternalOperations == {"get_article", "enrich_content", "generate_alt_text", "add_to_list"}

\* C27: within one activation the content fetch, enrichment, alt-text
\* generation and add_to_list are each invoked at most once, and once an
\* attempt has failed (or the activation has responded) none of them is
\* invoked again for that activation.
C27_NoAutomaticRetries ==
    [][ \A a \in ActivationIds :
            /\ \A op \in ExternalOperations :
                  /\ act'[a].calls[op] <= 1
                  /\ act'[a].calls[op] >= act[a].calls[op]
            /\ (act[a].raised # "" \/ Responded(a)) =>
                  \A op \in ExternalOperations :
                      act'[a].calls[op] = act[a].calls[op] ]_vars

\* the fetch failed for one activation and add_to_list raised for another;
\* each was attempted once and both activations have ended
C27_Witness ==
    \E a, b \in ActivationIds :
        /\ Responded(a) /\ act[a].raised = CONTENTFUL_ERROR
        /\ act[a].calls.get_article = 1 /\ act[a].calls.add_to_list = 0
        /\ Responded(b) /\ act[b].raised = MARKETO_ERROR
        /\ act[b].calls.add_to_list = 1 /\ act[b].calls.generate_alt_text = 1

\* line i holds a record of the entry asked for and every later line is not
\* a record
LatestBeforeMalformed(i) ==
    /\ i \in 1..Len(unit.lines)
    /\ unit.lines[i].kind = "object" /\ unit.lines[i].entry_id = unit.entry_id
    /\ \A j \in (i + 1)..Len(unit.lines) : unit.lines[j].kind # "object"
    /\ i < Len(unit.lines)

\* C28: when a record of the requested entry id is followed only by lines
\* that are not records (text json.loads rejects, or JSON that is not an
\* object), read_latest_activation_log skips them and returns that record.
C28_MalformedLinesSkipped ==
    (unit.op = "scan_log" /\ unit.done) =>
        \A i \in 1..MaxLines :
            LatestBeforeMalformed(i) =>
                unit.returned = [found |-> TRUE, index |-> i]

\* C29: under any interleaving of concurrent activations the audit log is
\* only extended: the lines already written stay as they are and where they
\* are, and every line added is the whole record of the one activation
\* that is ending, never a mix of two writers' output.
C29_LogOnlyExtended ==
    [][ /\ Len(logFile') >= Len(logFile)
        /\ SubSeq(logFile', 1, Len(logFile)) = logFile
        /\ \A i \in (Len(logFile) + 1)..Len(logFile') :
              \E a \in ActivationIds :
                  /\ ~Responded(a) /\ act'[a].pc = "responded"
                  /\ logFile'[i] = act'[a].result
                  /\ logFile'[i].activation_id = a ]_vars

\* two activations were in flight together and the one that arrived second
\* wrote its two lines first; all four lines are in the file
C29_Witness ==
    /\ Len(logFile) = 4
    /\ logFile[1].activation_id = 2 /\ logFile[2].activation_id = 2
    /\ logFile[3].activation_id = 1 /\ logFile[4].activation_id = 1
    /\ \A a \in ActivationIds : Responded(a) /\ Passed(a, "listed")

\* the step is the call of _is_rate_limited logged last in rate_log'
RateStep == Len(rate_log') = Len(rate_log) + 1

\* C30: a rejected request adds no timestamp to its client's history (the
\* history is only pruned) and no request changes another client's
\* history; so rejected attempts use no quota and do not prolong the block:
\* a request is rejected exactly when the maximum of the client's admitted
\* timestamps is still inside the window, whatever was rejected in between.
C30_RejectedUsesNoQuota ==
    [][ RateStep =>
          LET k == Len(rate_log')
              call == rate_log'[k]
              before == _client_requests[call.client]
              after == _client_requests'[call.client]
              admitted == { j \in 1..(k - 1) :
                              /\ rate_log'[j].client = call.client
                              /\ ~rate_log'[j].limited
                              /\ rate_log'[j].t >= call.t - _RATE_LIMIT_WINDOW_SEC }
          IN /\ \A c \in Clients \ {call.client} :
                    _client_requests'[c] = _client_requests[c]
             /\ call.limited =>
                    /\ Len(after) <= Len(before)
                    /\ \A i \in 1..Len(after) : after[i] \in Range(before)
             /\ Len(after) = Cardinality(admitted) + (IF call.limited THEN 0 ELSE 1)
             /\ call.limited <=> Cardinality(admitted) >= _RATE_LIMIT_MAX_REQUESTS
      ]_vars

\* a client was admitted, rejected inside the window, another client was
\* served, and the first client was admitted again once its admitted
\* timestamp had left the window
C30_Witness ==
    /\ Len(rate_log) = 4
    /\ rate_log[1].client = rate_log[2].client
    /\ rate_log[3].client # rate_log[1].client
    /\ rate_log[4].client = rate_log[1].client
    /\ ~rate_log[1].limited /\ rate_log[2].limited
    /\ ~rate_log[3].limited /\ ~rate_log[4].limited
    /\ rate_log[2].t > rate_log[1].t
    /\ rate_log[4].t - rate_log[2].t <= _RATE_LIMIT_WINDOW_SEC
    /\ _client_requests[rate_log[4].client] = << rate_log[4].t >>

====
